---- MODULE Spec2Model ----
(***************************************************************************)
(* Model of the OpenFDA drug-label MCP server (src/src/index.ts, the       *)
(* OpenFDAServer class with the Zod-validated tool handlers).              *)
(*                                                                         *)
(* JavaScript values are records tagged by their typeof/kind in field t.  *)
(* A JavaScript string is the sequence of its pieces: a string that      *)
(* comes from a caller or from the upstream API is a sequence of           *)
(* one-character pieces, the fixed text of a template literal is a single  *)
(* piece, and a string holding JSON text is the sequence of its lexemes.   *)
(* A number is stored as twice its value (field twice), so that halves     *)
(* such as 1.5 are representable and "is an integer" is "twice is even";   *)
(* NaN is a number with nan = TRUE.  An object is its ordered list of      *)
(* members [k, v]; an array its list of elements.                          *)
(***************************************************************************)
EXTENDS Integers, Sequences, FiniteSets, TLC

VARIABLES inv, srv, tText, tMax, tOut

vars == <<inv, srv, tText, tMax, tOut>>

-----------------------------------------------------------------------------
(* JavaScript values *)

Undef == [t |-> "undefined"]

Null == [t |-> "null"]

Bool(b) == [t |-> "boolean", b |-> b]

NaN == [t |-> "number", nan |-> TRUE]

Half(h) == [t |-> "number", twice |-> h]

Num(n) == Half(2 * n)

Str(s) == [t |-> "string", s |-> s]

\* a string holding JSON text, the sequence of its lexemes
Text(l) == [t |-> "string", text |-> l]

Arr(a) == [t |-> "array", a |-> a]

Obj(m) == [t |-> "object", m |-> m]

Mem(k, v) == [k |-> k, v |-> v]

IsNaN(v) == v.t = "number" /\ "nan" \in DOMAIN v

IsNum(v) == v.t = "number" /\ "twice" \in DOMAIN v

\* obj[key] / obj.key: the value of the last member with that key, undefined
\* when there is none; a property read on a string or a number yields
\* undefined as well (no own property of these names in the model).
Get(obj, key) ==
  IF obj.t # "object" THEN Undef
  ELSE LET idx == {i \in 1..Len(obj.m) : obj.m[i].k = key}
       IN IF idx = {} THEN Undef
          ELSE obj.m[CHOOSE i \in idx : \A j \in idx : j <= i].v

\* JavaScript truthiness: undefined, null, false, 0, NaN and "" are falsy.
Truthy(v) ==
  CASE v.t = "undefined" -> FALSE
    [] v.t = "null" -> FALSE
    [] v.t = "boolean" -> v.b
    [] v.t = "number" -> IsNum(v) /\ v.twice # 0
    [] v.t = "string" -> IF "s" \in DOMAIN v THEN v.s # <<>> ELSE v.text # <<>>
    [] OTHER -> TRUE

\* a || b
OrElse(a, b) == IF Truthy(a) THEN a ELSE b

-----------------------------------------------------------------------------
(* Number <-> string conversions *)

DigitChar == <<"0", "1", "2", "3", "4", "5", "6", "7", "8", "9">>

Digits == {DigitChar[i] : i \in 1..10}

DigitVal(c) == (CHOOSE i \in 1..10 : DigitChar[i] = c) - 1

RECURSIVE DigitsOf(_)
DigitsOf(n) ==
  IF n < 10 THEN <<DigitChar[n + 1]>>
  ELSE DigitsOf(n \div 10) \o <<DigitChar[(n % 10) + 1]>>

RECURSIVE DigitsVal(_)
DigitsVal(s) ==
  IF s = <<>> THEN 0
  ELSE 10 * DigitsVal(SubSeq(s, 1, Len(s) - 1)) + DigitVal(s[Len(s)])

Abs(x) == IF x < 0 THEN -x ELSE x

\* Number.prototype.toString / String(n)
NumberToString(v) ==
  IF IsNaN(v) THEN <<"N", "a", "N">>
  ELSE (IF v.twice < 0 THEN <<"-">> ELSE <<>>)
       \o DigitsOf(Abs(v.twice) \div 2)
       \o (IF Abs(v.twice) % 2 = 1 THEN <<".", "5">> ELSE <<>>)

\* Number(string): "" is 0; an optional sign, digits and an optional ".5"
\* give that number; any other text is NaN.
StringToNumber(s) ==
  LET neg  == s # <<>> /\ s[1] = "-"
      body == IF neg THEN SubSeq(s, 2, Len(s)) ELSE s
      frac == Len(body) >= 3 /\ SubSeq(body, Len(body) - 1, Len(body)) = <<".", "5">>
      ds   == IF frac THEN SubSeq(body, 1, Len(body) - 2) ELSE body
      mag  == 2 * DigitsVal(ds) + (IF frac THEN 1 ELSE 0)
  IN IF s = <<>> THEN Half(0)
     ELSE IF ds # <<>> /\ \A i \in 1..Len(ds) : ds[i] \in Digits
          THEN Half(IF neg THEN -mag ELSE mag)
          ELSE NaN

\* Number(x), as z.coerce.number() applies it to its input
ToNumber(v) ==
  CASE v.t = "number" -> v
    [] v.t = "string" -> StringToNumber(v.s)
    [] v.t = "boolean" -> IF v.b THEN Num(1) ELSE Num(0)
    [] v.t = "null" -> Num(0)
    [] v.t = "array" ->
         IF v.a = <<>> THEN Num(0)
         ELSE IF Len(v.a) = 1 /\ v.a[1].t = "string" THEN StringToNumber(v.a[1].s)
         ELSE IF Len(v.a) = 1 /\ v.a[1].t = "number" THEN v.a[1]
         ELSE IF Len(v.a) = 1 /\ v.a[1].t \in {"null", "undefined"} THEN Num(0)
         ELSE NaN
    [] OTHER -> NaN

-----------------------------------------------------------------------------
(* JSON text.  A JSON text is a sequence of lexemes: the punctuation       *)
(* { } [ ] , : and the scalar lexemes null, true, false, a number (its     *)
(* decimal text) and a string (its characters).                            *)

Lx(p) == [lx |-> p]

NumLx(text) == [lx |-> "number", text |-> text]

StrLx(s) == [lx |-> "string", s |-> s]

\* a member's name: a string lexeme holding the property name
KeyLx(k) == [lx |-> "string", key |-> k]

RECURSIVE JSONstringify(_), StringifyElems(_, _), StringifyMembers(_, _, _)

\* JSON.stringify(v): members whose value is undefined are left out, an
\* undefined array element and NaN are written as null.
JSONstringify(v) ==
  CASE v.t = "null" -> <<Lx("null")>>
    [] v.t = "undefined" -> <<>>
    [] v.t = "boolean" -> <<Lx(IF v.b THEN "true" ELSE "false")>>
    [] v.t = "number" -> IF IsNaN(v) THEN <<Lx("null")>> ELSE <<NumLx(NumberToString(v))>>
    [] v.t = "string" -> <<StrLx(v.s)>>
    [] v.t = "array" -> <<Lx("[")>> \o StringifyElems(v.a, 1) \o <<Lx("]")>>
    [] v.t = "object" -> <<Lx("{")>> \o StringifyMembers(v.m, 1, TRUE) \o <<Lx("}")>>

StringifyElems(a, i) ==
  IF i > Len(a) THEN <<>>
  ELSE (IF i > 1 THEN <<Lx(",")>> ELSE <<>>)
       \o (IF a[i].t = "undefined" THEN <<Lx("null")>> ELSE JSONstringify(a[i]))
       \o StringifyElems(a, i + 1)

StringifyMembers(m, i, first) ==
  IF i > Len(m) THEN <<>>
  ELSE IF m[i].v.t = "undefined" THEN StringifyMembers(m, i + 1, first)
  ELSE (IF first THEN <<>> ELSE <<Lx(",")>>)
       \o <<KeyLx(m[i].k), Lx(":")>> \o JSONstringify(m[i].v)
       \o StringifyMembers(m, i + 1, FALSE)

SyntaxError == [ok |-> FALSE]

Parsed(v, next) == [ok |-> TRUE, v |-> v, next |-> next]

IsLx(l, i, p) == i <= Len(l) /\ l[i].lx = p

RECURSIVE ParseValue(_, _), ParseElems(_, _, _), ParseMembers(_, _, _)

\* One JSON value starting at lexeme i: the value and the position after it.
ParseValue(l, i) ==
  IF i > Len(l) THEN SyntaxError
  ELSE CASE l[i].lx = "null" -> Parsed(Null, i + 1)
         [] l[i].lx = "true" -> Parsed(Bool(TRUE), i + 1)
         [] l[i].lx = "false" -> Parsed(Bool(FALSE), i + 1)
         [] l[i].lx = "number" ->
              IF IsNaN(StringToNumber(l[i].text)) \/ l[i].text = <<>> THEN SyntaxError
              ELSE Parsed(StringToNumber(l[i].text), i + 1)
         [] l[i].lx = "string" ->
              IF "s" \in DOMAIN l[i] THEN Parsed(Str(l[i].s), i + 1) ELSE SyntaxError
         [] l[i].lx = "[" ->
              IF IsLx(l, i + 1, "]") THEN Parsed(Arr(<<>>), i + 2)
              ELSE ParseElems(l, i + 1, <<>>)
         [] l[i].lx = "{" ->
              IF IsLx(l, i + 1, "}") THEN Parsed(Obj(<<>>), i + 2)
              ELSE ParseMembers(l, i + 1, <<>>)
         [] OTHER -> SyntaxError

ParseElems(l, i, acc) ==
  LET e == ParseValue(l, i)
  IN IF ~e.ok THEN SyntaxError
     ELSE IF IsLx(l, e.next, "]") THEN Parsed(Arr(Append(acc, e.v)), e.next + 1)
     ELSE IF IsLx(l, e.next, ",") THEN ParseElems(l, e.next + 1, Append(acc, e.v))
     ELSE SyntaxError

ParseMembers(l, i, acc) ==
  IF ~(IsLx(l, i, "string") /\ "key" \in DOMAIN l[i] /\ IsLx(l, i + 1, ":"))
  THEN SyntaxError
  ELSE LET e == ParseValue(l, i + 2)
       IN IF ~e.ok THEN SyntaxError
          ELSE IF IsLx(l, e.next, "}")
               THEN Parsed(Obj(Append(acc, Mem(l[i].key, e.v))), e.next + 1)
          ELSE IF IsLx(l, e.next, ",")
               THEN ParseMembers(l, e.next + 1, Append(acc, Mem(l[i].key, e.v)))
          ELSE SyntaxError

\* JSON.parse(text): the value, or a SyntaxError when the text is not
\* exactly one JSON value.
JSONparse(l) ==
  LET r == ParseValue(l, 1)
  IN IF r.ok /\ r.next = Len(l) + 1 THEN [ok |-> TRUE, v |-> r.v] ELSE SyntaxError

-----------------------------------------------------------------------------
(* Exceptions.  An operator that models code which may throw returns       *)
(* either its value or a thrown error, a record with t = "throw".          *)

Throw(name, message) == [t |-> "throw", name |-> name, message |-> message]

Throws(v) == v.t = "throw"

\* the pieces of an error message: fixed text, the characters of a rendered
\* value, or the text of a response body
Piece(text) == [piece |-> text]

Chars(s) == [chars |-> s]

BodyText(body) == [body |-> body]

\* String(error), as the template literal `${error}` renders an Error
ErrorToString(e) == <<Piece(e.name), Piece(": ")>> \o e.message

McpError(code, message) ==
  [t |-> "throw", name |-> "McpError", code |-> code, message |-> message]

IsMcpError(v) == v.t = "throw" /\ v.name = "McpError"

-----------------------------------------------------------------------------
(* The Zod schemas *)

LimitMin == 1

SkipMin == 0

SearchLimitMax == 200

SearchLimitDefault == 50

SearchSkipDefault == 0

QueryLimitMax == 5

QueryLimitDefault == 3

ZodError == Throw("ZodError", <<Piece("invalid arguments")>>)

\* z.string().optional()
ZodOptionalString(v) == IF v.t \in {"undefined", "string"} THEN v ELSE ZodError

\* z.string()
ZodString(v) == IF v.t = "string" THEN v ELSE ZodError

\* z.coerce.number().int().min(lo).max(hi).optional().default(dflt); hi < 0
\* stands for no maximum
ZodCoercedInt(v, lo, hi, dflt) ==
  IF v.t = "undefined" THEN Num(dflt)
  ELSE LET n == ToNumber(v)
       IN IF IsNaN(n) THEN ZodError
          ELSE IF n.twice % 2 # 0 THEN ZodError
          ELSE IF n.twice < 2 * lo THEN ZodError
          ELSE IF hi >= 0 /\ n.twice > 2 * hi THEN ZodError
          ELSE n

\* z.array(z.string()).optional()
ZodOptionalStringArray(v) ==
  IF v.t = "undefined" THEN v
  ELSE IF v.t = "array" /\ \A i \in 1..Len(v.a) : v.a[i].t = "string" THEN v
  ELSE ZodError

\* z.object({...}).parse(args): the parsed fields (tagged t = "parsed"),
\* unknown keys stripped, or a ZodError when args is no object or any field
\* fails.
ZodObject(args, fields) ==
  IF args.t # "object" THEN ZodError
  ELSE IF \E k \in DOMAIN fields \ {"t"} : Throws(fields[k]) THEN ZodError
  ELSE fields

DrugLabelSearchParamsSchema(args) ==
  ZodObject(args,
    [t |-> "parsed",
     search |-> ZodOptionalString(Get(args, "search")),
     count  |-> ZodOptionalString(Get(args, "count")),
     skip   |-> ZodCoercedInt(Get(args, "skip"), SkipMin, -1, SearchSkipDefault),
     limit  |-> ZodCoercedInt(Get(args, "limit"), LimitMin, SearchLimitMax,
                              SearchLimitDefault)])

DrugQueryParamsSchema(args) ==
  ZodObject(args,
    [t |-> "parsed",
     drug_name |-> ZodString(Get(args, "drug_name")),
     limit     |-> ZodCoercedInt(Get(args, "limit"), LimitMin, QueryLimitMax,
                                 QueryLimitDefault)])

DrugDetailParamsSchema(args) ==
  ZodObject(args,
    [t |-> "parsed",
     set_id |-> ZodString(Get(args, "set_id")),
     fields |-> ZodOptionalStringArray(Get(args, "fields"))])

-----------------------------------------------------------------------------
(* makeRequest: the URL, and the reading of the response *)

Param(k, v) == [k |-> k, v |-> v]

\* url.searchParams after the four guarded set() calls, in the order made
makeRequestUrl(params) ==
  (IF Truthy(params.search) THEN <<Param("search", params.search.s)>> ELSE <<>>)
  \o (IF Truthy(params.count) THEN <<Param("count", params.count.s)>> ELSE <<>>)
  \o (IF Truthy(params.skip) THEN <<Param("skip", NumberToString(params.skip))>> ELSE <<>>)
  \o (IF Truthy(params.limit) THEN <<Param("limit", NumberToString(params.limit))>> ELSE <<>>)

\* What fetch() settles with: a rejection (network failure), or a response
FetchRejected == [kind |-> "reject"]

Response(ok, status, statusText, body) ==
  [kind |-> "response", ok |-> ok, status |-> status, statusText |-> statusText,
   body |-> body]

\* makeRequestResult with the response.ok test forgotten
makeRequestResultUnchecked(resp) ==
  IF resp.kind = "reject" THEN Throw("TypeError", <<Piece("fetch failed")>>)
  ELSE LET r == JSONparse(resp.body)
       IN IF r.ok THEN r.v
          ELSE Throw("SyntaxError", <<Piece("Unexpected token in JSON")>>)

\* The rest of makeRequest once fetch has settled: the parsed body, or the
\* error thrown.
makeRequestResult(resp) ==
  IF resp.kind = "reject" THEN Throw("TypeError", <<Piece("fetch failed")>>)
  ELSE IF ~resp.ok
       THEN Throw("Error", <<Piece("OpenFDA API error (")>> \o
                            <<Chars(NumberToString(Num(resp.status)))>> \o
                            <<Piece("): "), BodyText(resp.body)>>)
  ELSE LET r == JSONparse(resp.body)
       IN IF r.ok THEN r.v
          ELSE Throw("SyntaxError", <<Piece("Unexpected token in JSON")>>)

-----------------------------------------------------------------------------
(* The query each tool method hands to makeRequest *)

NameSearchQuery(drugName) ==
  <<"openfda.brand_name:", "\"">> \o drugName \o
  <<"\"", " OR ", "openfda.generic_name:", "\"">> \o drugName \o
  <<"\"", " OR ", "openfda.substance_name:", "\"">> \o drugName \o <<"\"">>

searchDrugLabelsParams(params) ==
  [search |-> params.search, count |-> params.count, skip |-> params.skip,
   limit |-> params.limit]

NameLookupParams(drugName, limit) ==
  [search |-> Str(NameSearchQuery(drugName.s)), count |-> Undef, skip |-> Num(0),
   limit |-> limit]

\* getDrugDetailsParams with the forced limit forgotten
getDrugDetailsParamsNoLimit(setId) ==
  [search |-> Str(<<"set_id:", "\"">> \o setId.s \o <<"\"">>), count |-> Undef,
   skip |-> Num(0), limit |-> Undef]

getDrugDetailsParams(setId) ==
  [search |-> Str(<<"set_id:", "\"">> \o setId.s \o <<"\"">>), count |-> Undef,
   skip |-> Num(0), limit |-> Num(1)]

-----------------------------------------------------------------------------
(* Property access on values of any type *)

TypeError == Throw("TypeError", <<Piece("cannot read properties or call")>>)

Nullish(v) == v.t \in {"undefined", "null"}

\* v?.key
OptGet(v, key) == IF Nullish(v) THEN Undef ELSE Get(v, key)

\* v.length
LengthOf(v) ==
  CASE v.t = "array" -> Num(Len(v.a))
    [] v.t = "string" -> Num(Len(v.s))
    [] v.t = "object" -> Get(v, "length")
    [] OTHER -> Undef

\* v[0], for a v that is neither undefined nor null
Index0(v) ==
  CASE v.t = "array" -> IF v.a = <<>> THEN Undef ELSE v.a[1]
    [] v.t = "string" -> IF v.s = <<>> THEN Undef ELSE Str(<<v.s[1]>>)
    [] v.t = "object" -> Get(v, "0")
    [] OTHER -> Undef

\* v?.[0]
OptIndex0(v) == IF Nullish(v) THEN Undef ELSE Index0(v)

\* The property name a string used as an index denotes.  Field names are
\* one-piece strings; any other string names no property of a record.
PropertyKey(s) == IF Len(s) = 1 THEN s[1] ELSE ""

\* An object literal: evaluating a member that throws makes the literal throw.
ObjectLiteral(m) ==
  IF \E i \in 1..Len(m) : Throws(m[i].v)
  THEN m[CHOOSE i \in 1..Len(m) :
             Throws(m[i].v) /\ \A j \in 1..(i - 1) : ~Throws(m[j].v)].v
  ELSE Obj(m)

\* String(v), as Array.prototype.join renders an element
RECURSIVE JoinElement(_), ArrayJoin(_, _, _)
JoinElement(v) ==
  CASE v.t = "string" -> v.s
    [] v.t = "number" -> NumberToString(v)
    [] v.t = "boolean" -> IF v.b THEN <<"true">> ELSE <<"false">>
    [] v.t = "array" -> ArrayJoin(v.a, <<",">>, 1)
    [] v.t = "object" -> <<"[object Object]">>
    [] OTHER -> <<>>

\* a.join(sep), from element i on
ArrayJoin(a, sep, i) ==
  IF i > Len(a) THEN <<>>
  ELSE (IF i > 1 THEN sep ELSE <<>>) \o JoinElement(a[i]) \o ArrayJoin(a, sep, i + 1)

-----------------------------------------------------------------------------
(* Response shaping *)

TruncationMarker == <<".", ".", ".", " ", "[", "t", "r", "u", "n", "c", "a", "t", "e", "d", "]">>

\* truncateText with the length test off by one (< for <=)
truncateTextStrictlyShorter(text, maxLength) ==
  IF ~Truthy(text) THEN Str(<<>>)
  ELSE LET textStr == IF text.t = "array" THEN Str(ArrayJoin(text.a, <<" ">>, 1)) ELSE text
           len     == ToNumber(LengthOf(textStr))
       IN IF IsNum(len) /\ len.twice < 2 * maxLength THEN textStr
          ELSE IF textStr.t # "string" THEN TypeError
          ELSE Str(SubSeq(textStr.s, 1, maxLength) \o TruncationMarker)

truncateText(text, maxLength) ==
  IF ~Truthy(text) THEN Str(<<>>)
  ELSE LET textStr == IF text.t = "array" THEN Str(ArrayJoin(text.a, <<" ">>, 1)) ELSE text
           len     == ToNumber(LengthOf(textStr))
       IN IF IsNum(len) /\ len.twice <= 2 * maxLength THEN textStr
          ELSE IF textStr.t # "string" THEN TypeError
          ELSE Str(SubSeq(textStr.s, 1, maxLength) \o TruncationMarker)

Unknown == Str(<<"Unknown">>)

\* result.openfda?.<list>?.[0], for a result that is neither undefined nor null
FirstOf(result, list) == OptIndex0(OptGet(Get(result, "openfda"), list))

\* result.openfda?.brand_name?.[0] || result.openfda?.generic_name?.[0] || "Unknown"
DrugNameOf(result) ==
  IF Nullish(result) THEN TypeError
  ELSE OrElse(FirstOf(result, "brand_name"), OrElse(FirstOf(result, "generic_name"), Unknown))

ManufacturerOf(result) ==
  IF Nullish(result) THEN TypeError
  ELSE OrElse(FirstOf(result, "manufacturer_name"), Unknown)

extractKeyDrugInfo(result) ==
  IF Nullish(result) THEN TypeError
  ELSE ObjectLiteral(<<
    Mem("brand_name", OrElse(FirstOf(result, "brand_name"), Unknown)),
    Mem("generic_name", OrElse(FirstOf(result, "generic_name"), Unknown)),
    Mem("manufacturer", ManufacturerOf(result)),
    Mem("indications", truncateText(Get(result, "indications_and_usage"), 300)),
    Mem("warnings", truncateText(Get(result, "warnings"), 300)),
    Mem("adverse_reactions", truncateText(Get(result, "adverse_reactions"), 300)),
    Mem("contraindications", truncateText(Get(result, "contraindications"), 200)),
    Mem("dosage", truncateText(Get(result, "dosage_and_administration"), 200)),
    Mem("drug_interactions", truncateText(Get(result, "drug_interactions"), 200)),
    Mem("pregnancy_category", OrElse(OptIndex0(Get(result, "pregnancy")), Null)),
    Mem("set_id", Get(result, "set_id")),
    Mem("version", Get(result, "version")) >>)

\* results?.map(f) || [] : the mapped array, [] when results is undefined or
\* null, a TypeError when results is anything else that has no map method
MapResults(results, f(_)) ==
  IF Nullish(results) THEN Arr(<<>>)
  ELSE IF results.t # "array" THEN TypeError
  ELSE LET out == [i \in 1..Len(results.a) |-> f(results.a[i])]
       IN IF \E i \in 1..Len(out) : Throws(out[i])
          THEN out[CHOOSE i \in 1..Len(out) : Throws(out[i])]
          ELSE Arr(out)

\* data.meta?.results?.<key> || 0, for a data that is neither undefined nor null
MetaResult(data, key) ==
  OrElse(OptGet(OptGet(Get(data, "meta"), "results"), key), Num(0))

\* { content: [ { type: "text", text: JSON.stringify(payload, null, 2) } ] }
ToolResult(payload) ==
  IF Throws(payload) THEN payload
  ELSE [t |-> "result", content |-> <<[type |-> "text", text |-> JSONstringify(payload)]>>]

TruncatedNote == Str(<<"Text has been truncated for brevity. Use get_drug_details with set_id for full information.">>)

\* searchDrugLabels after makeRequest has returned data
searchDrugLabels(data) ==
  IF Nullish(data) THEN TypeError
  ELSE LET summarizedResults == MapResults(Get(data, "results"), extractKeyDrugInfo)
       IN IF Throws(summarizedResults) THEN summarizedResults
          ELSE ToolResult(Obj(<<
                 Mem("meta", Obj(<<
                   Mem("total_results", MetaResult(data, "total")),
                   Mem("returned_count", LengthOf(summarizedResults)),
                   Mem("skip", MetaResult(data, "skip")),
                   Mem("limit", MetaResult(data, "limit")) >>)),
                 Mem("results", summarizedResults) >>))

AdverseReactionsEntry(result) ==
  IF Nullish(result) THEN TypeError
  ELSE ObjectLiteral(<<
    Mem("drug_name", DrugNameOf(result)),
    Mem("manufacturer", ManufacturerOf(result)),
    Mem("adverse_reactions", truncateText(Get(result, "adverse_reactions"), 400)),
    Mem("contraindications", truncateText(Get(result, "contraindications"), 300)),
    Mem("set_id", Get(result, "set_id")) >>)

WarningsEntry(result) ==
  IF Nullish(result) THEN TypeError
  ELSE ObjectLiteral(<<
    Mem("drug_name", DrugNameOf(result)),
    Mem("manufacturer", ManufacturerOf(result)),
    Mem("warnings", truncateText(Get(result, "warnings"), 400)),
    Mem("precautions", truncateText(Get(result, "precautions"), 300)),
    Mem("boxed_warning", truncateText(Get(result, "boxed_warning"), 300)),
    Mem("set_id", Get(result, "set_id")) >>)

IndicationsEntry(result) ==
  IF Nullish(result) THEN TypeError
  ELSE ObjectLiteral(<<
    Mem("drug_name", DrugNameOf(result)),
    Mem("manufacturer", ManufacturerOf(result)),
    Mem("indications_and_usage", truncateText(Get(result, "indications_and_usage"), 400)),
    Mem("dosage_and_administration",
        truncateText(Get(result, "dosage_and_administration"), 300)),
    Mem("set_id", Get(result, "set_id")) >>)

\* The common shape of the three name-lookup results
NameLookupResult(drugName, data, entries, dataKey) ==
  IF Throws(entries) THEN entries
  ELSE ToolResult(Obj(<<
         Mem("query", drugName),
         Mem("total_results", MetaResult(data, "total")),
         Mem("returned_count", LengthOf(entries)),
         Mem(dataKey, entries),
         Mem("note", TruncatedNote) >>))

\* getDrugAdverseReactions after makeRequest has returned data
getDrugAdverseReactions(drugName, data) ==
  IF Nullish(data) THEN TypeError
  ELSE NameLookupResult(drugName, data,
         MapResults(Get(data, "results"), AdverseReactionsEntry),
         "adverse_reactions_data")

\* getDrugWarnings after makeRequest has returned data
getDrugWarnings(drugName, data) ==
  IF Nullish(data) THEN TypeError
  ELSE NameLookupResult(drugName, data,
         MapResults(Get(data, "results"), WarningsEntry), "warnings_data")

\* getDrugIndications after makeRequest has returned data
getDrugIndications(drugName, data) ==
  IF Nullish(data) THEN TypeError
  ELSE NameLookupResult(drugName, data,
         MapResults(Get(data, "results"), IndicationsEntry), "indications_data")

\* The loop over the requested fields: responseData after fields i.. have
\* been visited, acc being responseData before
RECURSIVE RequestedFields(_, _, _, _)
RequestedFields(result, fields, i, acc) ==
  IF i > Len(fields) THEN acc
  ELSE LET key   == PropertyKey(fields[i].s)
           value == Get(result, key)
           keep  == Truthy(value) /\ \A j \in 1..Len(acc) : acc[j].k # key
       IN RequestedFields(result, fields, i + 1,
                          IF keep THEN Append(acc, Mem(key, value)) ELSE acc)

OrEmptyList(v) == OrElse(v, Arr(<<>>))

KeyFields(result) ==
  <<Mem("drug_name", DrugNameOf(result)),
    Mem("manufacturer", ManufacturerOf(result)),
    Mem("indications_and_usage", OrEmptyList(Get(result, "indications_and_usage"))),
    Mem("warnings", OrEmptyList(Get(result, "warnings"))),
    Mem("adverse_reactions", OrEmptyList(Get(result, "adverse_reactions"))),
    Mem("contraindications", OrEmptyList(Get(result, "contraindications"))),
    Mem("dosage_and_administration", OrEmptyList(Get(result, "dosage_and_administration"))),
    Mem("drug_interactions", OrEmptyList(Get(result, "drug_interactions"))),
    Mem("boxed_warning", OrEmptyList(Get(result, "boxed_warning"))),
    Mem("precautions", OrEmptyList(Get(result, "precautions"))),
    Mem("pregnancy", OrEmptyList(Get(result, "pregnancy"))),
    Mem("set_id", Get(result, "set_id")),
    Mem("version", Get(result, "version")) >>

NotFoundError == Str(<<"No drug found with the specified set_id">>)

CompleteNote == Str(<<"This is the complete, untruncated information for this drug.">>)

\* getDrugDetails with the test for no results forgotten
getDrugDetailsNoEmptyTest(setId, fields, data) ==
  IF Nullish(data) THEN TypeError
  ELSE LET result == OptIndex0(Get(data, "results"))
       IN IF Nullish(result) THEN TypeError
          ELSE ToolResult(Obj(<<
                 Mem("set_id", setId),
                 Mem("drug_details",
                     IF Truthy(fields) /\ Len(fields.a) > 0
                     THEN Obj(RequestedFields(result, fields.a, 1, <<>>))
                     ELSE Obj(KeyFields(result))),
                 Mem("note", CompleteNote) >>))

\* getDrugDetails after makeRequest has returned data
getDrugDetails(setId, fields, data) ==
  IF Nullish(data) THEN TypeError
  ELSE LET results == Get(data, "results")
           length  == LengthOf(results)
       IN IF ~Truthy(results) \/ (IsNum(length) /\ length.twice = 0)
          THEN ToolResult(Obj(<<Mem("error", NotFoundError), Mem("set_id", setId)>>))
          ELSE LET result == Index0(results)
               IN IF Nullish(result) THEN TypeError
                  ELSE ToolResult(Obj(<<
                         Mem("set_id", setId),
                         Mem("drug_details",
                             IF Truthy(fields) /\ Len(fields.a) > 0
                             THEN Obj(RequestedFields(result, fields.a, 1, <<>>))
                             ELSE Obj(KeyFields(result))),
                         Mem("note", CompleteNote) >>))

-----------------------------------------------------------------------------
(* The tool catalog returned by the ListTools handler *)

CatalogSearchLimitMax == 100

CatalogSearchLimitDefault == 10

CatalogSearchSkipDefault == 0

CatalogQueryLimitMax == 10

CatalogQueryLimitDefault == 5

CatalogLimitMin == 1

LimitProperty(default, minimum, maximum) ==
  [default |-> default, minimum |-> minimum, maximum |-> maximum]

\* One catalog entry: its name, the properties of its inputSchema, the
\* required ones, the default the schema declares for skip and what it
\* declares for limit (none: the empty set)
NameTool(name) ==
  [name |-> name, properties |-> {"drug_name", "limit"}, required |-> {"drug_name"},
   skipDefault |-> {},
   limit |-> {LimitProperty(CatalogQueryLimitDefault, CatalogLimitMin, CatalogQueryLimitMax)}]

ListTools ==
  << [name |-> "search_drug_labels", properties |-> {"search", "count", "skip", "limit"},
      required |-> {}, skipDefault |-> {CatalogSearchSkipDefault},
      limit |-> {LimitProperty(CatalogSearchLimitDefault, CatalogLimitMin,
                               CatalogSearchLimitMax)}],
     NameTool("get_drug_adverse_reactions"),
     NameTool("get_drug_warnings"),
     NameTool("get_drug_indications"),
     [name |-> "get_drug_details", properties |-> {"set_id", "fields"},
      required |-> {"set_id"}, skipDefault |-> {}, limit |-> {}] >>

ToolNames == {ListTools[i].name : i \in 1..Len(ListTools)}

ToolSpec(name) == ListTools[CHOOSE i \in 1..Len(ListTools) : ListTools[i].name = name]

-----------------------------------------------------------------------------
(* The CallTool handler *)

\* An invocation suspended in makeRequest at `await fetch(url)`: the method
\* that called makeRequest, its arguments, and the query it passed.
Await(method, locals, params) ==
  [t |-> "await", method |-> method, locals |-> locals, params |-> params]

\* ParseArguments with the JSON.parse of a string forgotten
ParseArgumentsUnparsed(rawArgs) == [ok |-> TRUE, v |-> rawArgs]

\* args, from rawArgs: parsed when rawArgs is a string
ParseArguments(rawArgs) ==
  IF rawArgs.t = "string" THEN JSONparse(rawArgs.text) ELSE [ok |-> TRUE, v |-> rawArgs]

\* `params.limit || 5` in the three name-lookup cases
LimitOrFive(limit) == OrElse(limit, Num(5))

\* Dispatch with the case of get_drug_indications missing from the switch
DispatchWithoutIndications(name, args) ==
  CASE name = "search_drug_labels" ->
         LET searchParams == DrugLabelSearchParamsSchema(args)
         IN IF Throws(searchParams) THEN searchParams
            ELSE Await(name, searchParams, searchDrugLabelsParams(searchParams))
    [] name \in {"get_drug_adverse_reactions", "get_drug_warnings"} ->
         LET queryParams == DrugQueryParamsSchema(args)
         IN IF Throws(queryParams) THEN queryParams
            ELSE Await(name, queryParams,
                       NameLookupParams(queryParams.drug_name, LimitOrFive(queryParams.limit)))
    [] name = "get_drug_details" ->
         LET detailParams == DrugDetailParamsSchema(args)
         IN IF Throws(detailParams) THEN detailParams
            ELSE Await(name, detailParams, getDrugDetailsParams(detailParams.set_id))
    [] OTHER -> McpError("MethodNotFound", <<Piece("Unknown tool: "), Piece(name)>>)

\* The switch on the tool name, up to the first await
Dispatch(name, args) ==
  CASE name = "search_drug_labels" ->
         LET searchParams == DrugLabelSearchParamsSchema(args)
         IN IF Throws(searchParams) THEN searchParams
            ELSE Await(name, searchParams, searchDrugLabelsParams(searchParams))
    [] name \in {"get_drug_adverse_reactions", "get_drug_warnings", "get_drug_indications"} ->
         LET queryParams == DrugQueryParamsSchema(args)
         IN IF Throws(queryParams) THEN queryParams
            ELSE Await(name, queryParams,
                       NameLookupParams(queryParams.drug_name, LimitOrFive(queryParams.limit)))
    [] name = "get_drug_details" ->
         LET detailParams == DrugDetailParamsSchema(args)
         IN IF Throws(detailParams) THEN detailParams
            ELSE Await(name, detailParams, getDrugDetailsParams(detailParams.set_id))
    [] OTHER -> McpError("MethodNotFound", <<Piece("Unknown tool: "), Piece(name)>>)

\* CatchBlock with the wrapping forgotten: what is thrown and is no McpError
\* comes back as a tool result carrying the error text
CatchBlockReturnsErrorText(name, r) ==
  IF ~Throws(r) THEN r
  ELSE IF IsMcpError(r) THEN r
  ELSE ToolResult(Obj(<<Mem("error", Str(<<r.name>>))>>))

\* The catch block around the switch: a McpError is rethrown, anything else
\* thrown is wrapped in a McpError; a value passes through.
CatchBlock(name, r) ==
  IF ~Throws(r) THEN r
  ELSE IF IsMcpError(r) THEN r
  ELSE McpError("InternalError",
                <<Piece("Error executing tool "), Piece(name), Piece(": ")>>
                \o ErrorToString(r))

\* The handler from its entry to its first suspension: a thrown McpError, or
\* the invocation awaiting its fetch
CallToolRequest(name, rawArgs) ==
  LET parsed == ParseArguments(rawArgs)
  IN IF ~parsed.ok
     THEN McpError("InvalidParams", <<Piece("Failed to parse arguments string: "),
                                      Piece("Unexpected token in JSON")>>)
     ELSE IF ~Truthy(parsed.v)
          THEN McpError("InvalidParams", <<Piece("Missing arguments")>>)
          ELSE CatchBlock(name, Dispatch(name, parsed.v))

\* The method's code after makeRequest returned data
Shape(method, locals, data) ==
  CASE method = "search_drug_labels" -> searchDrugLabels(data)
    [] method = "get_drug_adverse_reactions" -> getDrugAdverseReactions(locals.drug_name, data)
    [] method = "get_drug_warnings" -> getDrugWarnings(locals.drug_name, data)
    [] method = "get_drug_indications" -> getDrugIndications(locals.drug_name, data)
    [] method = "get_drug_details" -> getDrugDetails(locals.set_id, locals.fields, data)

\* CallToolResume with a retry: a rejected fetch or a non-success status makes
\* makeRequest fetch again
CallToolResumeRetries(name, locals, resp) ==
  LET data == makeRequestResult(resp)
  IN IF resp.kind = "reject" \/ ~resp.ok THEN Await(name, locals, Undef)
     ELSE CatchBlock(name, IF Throws(data) THEN data ELSE Shape(name, locals, data))

\* The handler from the settling of fetch to its end: the tool result
\* returned, or the McpError thrown
CallToolResume(name, locals, resp) ==
  LET data == makeRequestResult(resp)
  IN CatchBlock(name, IF Throws(data) THEN data ELSE Shape(name, locals, data))

-----------------------------------------------------------------------------
(* What callers and the upstream API may send *)

MaxStrLen == 2

CallerChars == {"a", "\""}

RECURSIVE StringsUpTo(_, _)
StringsUpTo(chars, n) ==
  IF n = 0 THEN {<<>>}
  ELSE LET shorter == StringsUpTo(chars, n - 1)
       IN shorter \cup {Append(s, c) : s \in {x \in shorter : Len(x) = n - 1}, c \in chars}

CallerStrings == {Str(s) : s \in StringsUpTo(CallerChars, MaxStrLen)}

UnknownToolName == "delete_drug_label"

CallNames == ToolNames \cup {UnknownToolName}

\* The integers next to a declared or enforced limit bound
BoundaryInts ==
  {-1, 0} \cup
  UNION {{b - 1, b, b + 1} :
           b \in {LimitMin, QueryLimitDefault, QueryLimitMax, CatalogQueryLimitMax,
                  SearchLimitDefault, CatalogSearchLimitMax, SearchLimitMax}}

IntegerLimits == {Num(n) : n \in BoundaryInts}

LimitValues ==
  {Undef, Null, Half(3), Str(<<"3">>), Str(<<"a">>)} \cup IntegerLimits

SkipValues == {Undef, Null, Num(0), Num(2), Num(-1), Half(3), Str(<<"2">>), Str(<<"a">>)}

\* An object with the given members, those whose value is undefined left out
\* (an argument object arrives as JSON and has no undefined members)
ObjectOf(m) == Obj(SelectSeq(m, LAMBDA x : x.v.t # "undefined"))

SearchArgs ==
  {ObjectOf(<<Mem("search", s), Mem("count", c), Mem("skip", k), Mem("limit", l)>>) :
     s \in {Undef, Str(<<>>), Str(<<"a">>), Num(3)},
     c \in {Undef, Str(<<"c">>)},
     k \in SkipValues, l \in {Undef, Num(5)}}
  \cup
  {ObjectOf(<<Mem("search", s), Mem("limit", l)>>) :
     s \in {Undef, Str(<<"a">>)}, l \in LimitValues}

NameArgs ==
  {ObjectOf(<<Mem("drug_name", d), Mem("limit", l)>>) :
     d \in {Undef, Num(3)} \cup CallerStrings, l \in LimitValues}

FieldLists ==
  {Undef, Arr(<<>>), Arr(<<Str(<<"warnings">>)>>),
   Arr(<<Str(<<"version">>), Str(<<"warnings">>)>>),
   Arr(<<Str(<<"boxed_warning">>), Str(<<"warnings">>), Str(<<"boxed_warning">>)>>),
   Str(<<"warnings">>), Arr(<<Num(3)>>)}

DetailArgs ==
  {ObjectOf(<<Mem("set_id", i), Mem("fields", f), Mem("limit", l), Mem("skip", k)>>) :
     i \in {Undef, Num(3)} \cup CallerStrings, f \in FieldLists,
     l \in {Undef, Num(5)}, k \in {Undef, Num(2)}}

\* Arguments that are no object, or an object no tool knows the members of
OddArgs == {Undef, Null, Num(0), Num(7), Bool(FALSE), Arr(<<>>), Obj(<<>>),
            Obj(<<Mem("other", Num(1))>>)}

ArgsOf(name) ==
  OddArgs \cup
  CASE name = "search_drug_labels" -> SearchArgs
    [] name = "get_drug_details" -> DetailArgs
    [] name = UnknownToolName -> {Obj(<<Mem("drug_name", Str(<<"a">>))>>)}
    [] OTHER -> NameArgs

\* Strings that are not JSON
MalformedTexts ==
  {Text(<<>>), Text(<<Lx("{")>>), Text(<<Lx("{"), KeyLx("drug_name"), Lx(":")>>),
   Text(<<Lx("{"), StrLx(<<"a">>), Lx("}")>>), Text(<<Lx("{"), Lx("}"), Lx("}")>>)}

\* rawArgs of a call: an argument value, its JSON encoding as a string, or a
\* string that is not JSON
RawArgsOf(name) ==
  ArgsOf(name)
  \cup {Text(JSONstringify(a)) : a \in ArgsOf(name) \ {Undef}}
  \cup MalformedTexts

LongText(n) == [i \in 1..n |-> "x"]

Words(w) == Str(<<w>>)

\* Label records the upstream API may return
FullRecord ==
  Obj(<<Mem("openfda", Obj(<<Mem("brand_name", Arr(<<Words("Advil")>>)),
                             Mem("generic_name", Arr(<<Words("ibuprofen")>>)),
                             Mem("manufacturer_name", Arr(<<Words("Pfizer")>>))>>)),
        Mem("indications_and_usage", Arr(<<Str(<<"u", "s", "e">>)>>)),
        Mem("warnings", Arr(<<Str(<<"w">>), Str(<<"v">>)>>)),
        Mem("adverse_reactions", Arr(<<Str(LongText(401))>>)),
        Mem("set_id", Str(<<"a">>)),
        Mem("version", Str(<<"1">>))>>)

SparseRecord ==
  Obj(<<Mem("openfda", Obj(<<Mem("brand_name", Arr(<<>>)),
                             Mem("generic_name", Arr(<<Words("ibuprofen")>>))>>)),
        Mem("warnings", Str(<<>>)),
        Mem("boxed_warning", Str(<<"b">>)),
        Mem("version", Num(0))>>)

BareRecord == Obj(<<Mem("set_id", Str(<<"a">>))>>)

NumericRecord == Obj(<<Mem("warnings", Num(5)), Mem("adverse_reactions", Bool(TRUE))>>)

UpstreamRecords == {FullRecord, SparseRecord, BareRecord, NumericRecord, Null}

UpstreamResults ==
  {Undef, Arr(<<>>)} \cup {Arr(<<r>>) : r \in UpstreamRecords}
  \cup {Arr(<<FullRecord, SparseRecord>>)}

UpstreamMeta ==
  {Undef,
   Obj(<<Mem("results", Obj(<<Mem("skip", Num(0)), Mem("limit", Num(1)),
                              Mem("total", Num(7))>>))>>)}

UpstreamData ==
  {Null, Arr(<<>>)} \cup {ObjectOf(<<Mem("meta", m), Mem("results", r)>>) :
                 m \in UpstreamMeta, r \in UpstreamResults}

ErrorBody ==
  JSONstringify(Obj(<<Mem("error", Obj(<<Mem("code", Words("NOT_FOUND"))>>))>>))

\* a body that is not JSON
HtmlBody == <<Lx("<html>")>>

Responses ==
  {FetchRejected,
   Response(FALSE, 404, "Not Found", ErrorBody),
   Response(FALSE, 500, "Internal Server Error", HtmlBody),
   Response(TRUE, 200, "OK", HtmlBody)}
  \cup {Response(TRUE, 200, "OK", JSONstringify(d)) : d \in UpstreamData}

-----------------------------------------------------------------------------
(* The server: its invocations.  Each invocation records where its handler *)
(* stands (pc), the request (name, rawArgs), the handler's locals that      *)
(* outlive the await (locals), the query handed to makeRequest (query),     *)
(* the search parameters of the URL fetched (url), the number of GETs       *)
(* issued (gets), what fetch settled with (resp) and how the handler ended  *)
(* (outcome).                                                               *)

Invocations == {1}

NoResponse == [kind |-> "none"]

Idle ==
  [pc |-> "idle", name |-> "", rawArgs |-> Undef, locals |-> Undef, query |-> Undef,
   url |-> <<>>, gets |-> 0, resp |-> NoResponse, outcome |-> Undef]

\* The server process once constructed and connected: its transport, the
\* SIGINT handlers suspended at `await this.server.close()` (awaiting) and
\* those whose close() has resolved and that have yet to resume (resumable),
\* the signals received, whether the process has exited, and the reply to
\* the last ListTools request.
Running ==
  [transport |-> "open", awaiting |-> 0, resumable |-> 0, sigints |-> 0,
   exited |-> FALSE, listed |-> Undef]

Init ==
  /\ inv = [i \in Invocations |-> Idle]
  /\ srv = Running
  /\ tText = Undef
  /\ tMax = 0
  /\ tOut = Undef

\* A CallTool request arrives: the handler runs up to its first await, the
\* fetch of makeRequest, or throws before it
\* the transport delivers requests and the handler slot is free
Accepting(i) == inv[i].pc = "idle" /\ srv.transport = "open" /\ ~srv.exited

Arrives(i, name, rawArgs) ==
  /\ Accepting(i)
  /\ LET r == CallToolRequest(name, rawArgs)
     IN inv' = [inv EXCEPT ![i] =
          IF r.t = "await"
          THEN [Idle EXCEPT !.pc = "fetch", !.name = name, !.rawArgs = rawArgs,
                            !.locals = r.locals, !.query = r.params,
                            !.url = makeRequestUrl(r.params), !.gets = 1]
          ELSE [Idle EXCEPT !.pc = "done", !.name = name, !.rawArgs = rawArgs,
                            !.outcome = r]]
  /\ UNCHANGED <<srv, tText, tMax, tOut>>

CallTool(i) ==
  /\ Accepting(i)
  /\ \E name \in CallNames : \E rawArgs \in RawArgsOf(name) : Arrives(i, name, rawArgs)

\* The fetch settles: the handler runs to its end
\* Settles with the handler's locals kept in a field of the server that the
\* latest call of the tool overwrites
SettlesWithSharedLocals(i, resp) ==
  /\ inv[i].pc = "fetch"
  /\ ~srv.exited
  /\ LET same   == {j \in DOMAIN inv : inv[j].pc = "fetch" /\ inv[j].name = inv[i].name}
         latest == CHOOSE j \in same : \A k \in same : k <= j
     IN inv' = [inv EXCEPT ![i].pc = "done", ![i].resp = resp,
                           ![i].outcome =
                              CallToolResume(inv[i].name, inv[latest].locals, resp)]
  /\ UNCHANGED <<srv, tText, tMax, tOut>>

\* The handler of invocation i resumes with what its fetch settled with and
\* runs to its end, or to another await of a fetch
Settles(i, resp) ==
  /\ inv[i].pc = "fetch"
  /\ ~srv.exited
  /\ LET r == CallToolResume(inv[i].name, inv[i].locals, resp)
     IN inv' = [inv EXCEPT ![i] =
          IF r.t = "await"
          THEN [@ EXCEPT !.resp = resp, !.gets = @ + 1]
          ELSE [@ EXCEPT !.pc = "done", !.resp = resp, !.outcome = r]]
  /\ UNCHANGED <<srv, tText, tMax, tOut>>

FetchSettles(i) ==
  /\ inv[i].pc = "fetch"
  /\ \E resp \in Responses : Settles(i, resp)

\* The result or error has gone back to the caller
Reply(i) ==
  /\ inv[i].pc = "done"
  /\ ~srv.exited
  /\ inv' = [inv EXCEPT ![i] = Idle]
  /\ UNCHANGED <<srv, tText, tMax, tOut>>

\* A ListTools request is answered
ListToolsRequest ==
  /\ srv.transport = "open"
  /\ ~srv.exited
  /\ srv' = [srv EXCEPT !.listed = Arr(ListTools)]
  /\ UNCHANGED <<inv, tText, tMax, tOut>>

Next ==
  \/ \E i \in DOMAIN inv : CallTool(i) \/ FetchSettles(i) \/ Reply(i)
  \/ ListToolsRequest

Spec == Init /\ [][Next]_vars

-----------------------------------------------------------------------------
(* The server with several invocations in flight and SIGINT: the calls and  *)
(* the upstream responses are drawn from samples.                           *)

MaxInFlight == 2

MaxSigints == 2

SampleCalls ==
  { <<"get_drug_warnings", Obj(<<Mem("drug_name", Words("aspirin"))>>)>>,
    <<"get_drug_warnings",
      Text(JSONstringify(Obj(<<Mem("drug_name", Words("ibuprofen")),
                               Mem("limit", Num(2))>>)))>>,
    <<"get_drug_details", Obj(<<Mem("set_id", Str(<<"a">>))>>)>>,
    <<"get_drug_details", Obj(<<Mem("fields", Arr(<<>>))>>)>> }

SampleResponses ==
  { FetchRejected,
    Response(FALSE, 404, "Not Found", ErrorBody),
    Response(TRUE, 200, "OK",
             JSONstringify(Obj(<<Mem("results", Arr(<<FullRecord>>))>>))) }

InitConcurrent ==
  /\ inv = [i \in 1..MaxInFlight |-> Idle]
  /\ srv = Running
  /\ tText = Undef
  /\ tMax = 0
  /\ tOut = Undef

CallToolSample(i) ==
  /\ Accepting(i)
  /\ \E call \in SampleCalls : Arrives(i, call[1], call[2])

FetchSettlesSample(i) ==
  /\ inv[i].pc = "fetch"
  /\ \E resp \in SampleResponses : Settles(i, resp)

\* The SIGINT handler, with process.exit(0) called before close() is awaited
OnSigintExitsAtOnce(p) == [p EXCEPT !.sigints = @ + 1, !.exited = TRUE]

\* The SIGINT handler up to its await: this.server.close() has been called
OnSigint(p) ==
  [p EXCEPT !.sigints = @ + 1, !.awaiting = @ + 1,
            !.transport = IF @ = "closed" THEN "closed" ELSE "closing"]

Sigint ==
  /\ ~srv.exited
  /\ srv.sigints < MaxSigints
  /\ srv' = OnSigint(srv)
  /\ UNCHANGED <<inv, tText, tMax, tOut>>

\* The promise of a close() resolves: the transport is closed
CloseResolves ==
  /\ ~srv.exited
  /\ srv.awaiting > 0
  /\ srv' = [srv EXCEPT !.awaiting = @ - 1, !.resumable = @ + 1, !.transport = "closed"]
  /\ UNCHANGED <<inv, tText, tMax, tOut>>

\* A SIGINT handler resumes after its await: process.exit(0)
ProcessExit ==
  /\ ~srv.exited
  /\ srv.resumable > 0
  /\ srv' = [srv EXCEPT !.resumable = @ - 1, !.exited = TRUE]
  /\ UNCHANGED <<inv, tText, tMax, tOut>>

NextConcurrent ==
  \/ \E i \in DOMAIN inv : CallToolSample(i) \/ FetchSettlesSample(i) \/ Reply(i)
  \/ ListToolsRequest
  \/ Sigint
  \/ CloseResolves
  \/ ProcessExit

SpecConcurrent == InitConcurrent /\ [][NextConcurrent]_vars

-----------------------------------------------------------------------------
(* truncateText on its own: inputs drawn from bounded sets *)

MaxTextLen == 3

MaxTruncLen == 3

TextChars == {"x", " "}

ShortStrings == {Str(s) : s \in StringsUpTo(TextChars, MaxTextLen)}

ShortArrays ==
  LET elems == {Str(s) : s \in StringsUpTo(TextChars, MaxTextLen - 1)}
  IN {Arr(<<>>)} \cup {Arr(<<a>>) : a \in elems} \cup {Arr(<<a, b>>) : a, b \in elems}

\* the maxima the shaping code passes to truncateText
FieldMaxima == {200, 300, 400}

LongStrings == {Str(LongText(m + d)) : m \in FieldMaxima, d \in {-1, 0, 1}}

LongArrays ==
  {Arr(<<Str(LongText(100)), Str(LongText(m + d - 101))>>) : m \in FieldMaxima, d \in {-1, 0, 1}}

TextInputs == ShortStrings \cup ShortArrays \cup LongStrings \cup LongArrays

InitTrunc ==
  /\ inv = [i \in Invocations |-> Idle]
  /\ srv = Running
  /\ tText \in TextInputs
  /\ tMax \in (0..MaxTruncLen) \cup FieldMaxima
  /\ tOut = Undef

ApplyTruncate ==
  /\ tOut = Undef
  /\ tOut' = truncateText(tText, tMax)
  /\ UNCHANGED <<inv, srv, tText, tMax>>

NextTrunc == ApplyTruncate

SpecTrunc == InitTrunc /\ [][NextTrunc]_vars

-----------------------------------------------------------------------------
(* Reading an invocation *)

NameLookupTools == {"get_drug_adverse_reactions", "get_drug_warnings", "get_drug_indications"}

LimitTools == {n \in ToolNames : ToolSpec(n).limit # {}}

DeclaredLimit(name) == CHOOSE d \in ToolSpec(name).limit : TRUE

Started(x) == x.pc # "idle"

\* the argument value of an invocation, when rawArgs holds one
HasArgs(x) == ParseArguments(x.rawArgs).ok

ArgsIn(x) == ParseArguments(x.rawArgs).v

HasObjectArgs(x) == HasArgs(x) /\ ArgsIn(x).t = "object"

IsInteger(v) == IsNum(v) /\ v.twice % 2 = 0

UrlKeys(url) == {url[j].k : j \in 1..Len(url)}

UrlValues(url, key) == {url[j].v : j \in {n \in 1..Len(url) : url[n].k = key}}

WithoutMember(args, key) == Obj(SelectSeq(args.m, LAMBDA x : x.k # key))

IsToolResult(outcome) == outcome.t = "result"

\* the payload of a tool result: its single text block read back as JSON
Payload(outcome) == JSONparse(outcome.content[1].text).v

\* what the tool's Zod schema makes of args
Validated(name, args) ==
  CASE name = "search_drug_labels" -> DrugLabelSearchParamsSchema(args)
    [] name \in NameLookupTools -> DrugQueryParamsSchema(args)
    [] name = "get_drug_details" -> DrugDetailParamsSchema(args)

-----------------------------------------------------------------------------
(* C1: for the four tools with a limit, an integer limit within the bounds *)
(* the catalog declares (minimum/maximum) is accepted and sent upstream     *)
(* unchanged, and an integer limit outside them is rejected before any      *)
(* query is built or any request is issued.  (The other arguments are such  *)
(* that the call is accepted when limit is left out.)                       *)
C1_DeclaredLimitBoundsDecide ==
  \A i \in DOMAIN inv :
    LET x == inv[i]
    IN (/\ Started(x)
        /\ x.name \in LimitTools
        /\ HasObjectArgs(x)
        /\ IsInteger(Get(ArgsIn(x), "limit"))
        /\ ~Throws(CallToolRequest(x.name, WithoutMember(ArgsIn(x), "limit"))))
       => LET l == Get(ArgsIn(x), "limit")
              d == DeclaredLimit(x.name)
          IN IF 2 * d.minimum <= l.twice /\ l.twice <= 2 * d.maximum
             THEN x.gets = 1 /\ UrlValues(x.url, "limit") = {NumberToString(l)}
             ELSE x.gets = 0 /\ x.url = <<>> /\ IsMcpError(x.outcome)

-----------------------------------------------------------------------------
\* The violations of shape, range and requiredness the claim names
NamedViolation(name, args) ==
  \/ /\ name \in NameLookupTools
     /\ Get(args, "drug_name").t = "undefined"
  \/ /\ name = "get_drug_details"
     /\ Get(args, "set_id").t = "undefined"
  \/ /\ name = "search_drug_labels"
     /\ LET skip == Get(args, "skip")
        IN IsNum(skip) /\ (skip.twice % 2 # 0 \/ skip.twice < 0)
  \/ /\ name = "get_drug_details"
     /\ LET fields == Get(args, "fields")
        IN /\ fields.t # "undefined"
           /\ ~(fields.t = "array" /\ \A j \in 1..Len(fields.a) : fields.a[j].t = "string")

InvalidInvocation(x) ==
  /\ HasArgs(x)
  /\ Truthy(ArgsIn(x))
  /\ \/ x.name \notin ToolNames
     \/ ArgsIn(x).t # "object"
     \/ NamedViolation(x.name, ArgsIn(x))
     \/ Throws(Validated(x.name, ArgsIn(x)))

(* C2: an invocation whose arguments fail the tool's validation (the       *)
(* schema rejects them; in particular a missing drug_name, a missing        *)
(* set_id, a non-integer or negative skip, fields that is not a list of     *)
(* strings), or whose tool name is not a tool, ends in a thrown McpError    *)
(* and never in a tool result; no request is issued for it.                 *)
C2_InvalidInvocationThrowsMcpError ==
  \A i \in DOMAIN inv :
    LET x == inv[i]
    IN (Started(x) /\ InvalidInvocation(x))
       => x.pc = "done" /\ IsMcpError(x.outcome) /\ x.gets = 0

C2_Witness ==
  \E i \in DOMAIN inv :
    LET x == inv[i]
    IN /\ x.pc = "done"
       /\ HasObjectArgs(x)
       /\ x.name = "search_drug_labels"
       /\ NamedViolation(x.name, ArgsIn(x))
       /\ IsMcpError(x.outcome)
       /\ x.outcome.code = "InternalError"

-----------------------------------------------------------------------------
\* each argument value of each tool with its JSON encoding as a string
EncodingOf ==
  [n \in CallNames |->
     {[value |-> a, string |-> Text(JSONstringify(a))] : a \in ArgsOf(n) \ {Undef}}]

\* what an invocation of the tool with the argument value a itself comes to,
\* compared with the invocation x
SameAsDirect(x, a) ==
  LET direct == CallToolRequest(x.name, a)
  IN IF direct.t = "await"
     THEN /\ x.gets = 1
          /\ x.url = makeRequestUrl(direct.params)
          /\ x.pc = "done" => x.outcome = CallToolResume(x.name, direct.locals, x.resp)
     ELSE x.pc = "done" /\ x.gets = 0 /\ x.url = <<>> /\ x.outcome = direct

\* every error an invocation is answered with when its arguments are a value
ErrorsForArgumentValues ==
  {e \in UNION {{CallToolRequest(n, a) : a \in ArgsOf(n)} : n \in CallNames} :
     Throws(e)}

(* C3: arguments that arrive as a JSON-encoded string are parsed before     *)
(* validation: invoking a tool with the string encoding of an argument      *)
(* value has the same upstream request and the same result or error as      *)
(* invoking it with the value; a string that is not JSON ends in a McpError *)
(* that no invocation with parsed arguments is answered with, and no        *)
(* request is issued.                                                       *)
C3_EncodedArgumentsParsedFirst ==
  \A i \in DOMAIN inv :
    LET x == inv[i]
    IN (Started(x) /\ x.rawArgs.t = "string")
       => /\ \A e \in EncodingOf[x.name] :
               e.string = x.rawArgs => SameAsDirect(x, e.value)
          /\ x.rawArgs \in MalformedTexts
               => /\ x.pc = "done"
                  /\ IsMcpError(x.outcome)
                  /\ x.gets = 0
                  /\ x.outcome \notin ErrorsForArgumentValues

C3_Witness ==
  \E i \in DOMAIN inv :
    LET x == inv[i]
    IN /\ x.pc = "done"
       /\ x.rawArgs.t = "string"
       /\ x.name = "get_drug_warnings"
       /\ \E e \in EncodingOf[x.name] :
            /\ e.string = x.rawArgs
            /\ Get(e.value, "limit") = Str(<<"3">>)
       /\ IsToolResult(x.outcome)

-----------------------------------------------------------------------------
\* s with a backslash put before each double quote
RECURSIVE EscapeQuotes(_)
EscapeQuotes(s) ==
  IF s = <<>> THEN <<>>
  ELSE (IF Head(s) = "\"" THEN <<"\\", "\"">> ELSE <<Head(s)>>) \o EscapeQuotes(Tail(s))

IsInfix(p, s) ==
  \E k \in 0..(Len(s) - Len(p)) : SubSeq(s, k + 1, k + Len(p)) = p

Quoted(s) == <<"\"">> \o s \o <<"\"">>

(* C4: the search expression of a name lookup contains the brand-name      *)
(* clause and the generic-name clause joined by OR, each holding the        *)
(* caller's drug_name in double quotes with every double quote inside it    *)
(* escaped by one backslash.                                                *)
C4_NameLookupEscapesQuotes ==
  \A i \in DOMAIN inv :
    LET x == inv[i]
    IN (x.gets = 1 /\ x.name \in NameLookupTools)
       => LET name == EscapeQuotes(Get(ArgsIn(x), "drug_name").s)
          IN \E search \in UrlValues(x.url, "search") :
               IsInfix(<<"openfda.brand_name:">> \o Quoted(name) \o <<" OR ">>
                       \o <<"openfda.generic_name:">> \o Quoted(name), search)

-----------------------------------------------------------------------------
(* C5: a get_drug_details invocation that passes validation issues a       *)
(* query whose search expression is set_id:"<the caller's set_id>" and      *)
(* whose limit is 1, whatever limit or skip the caller supplied.            *)
C5_DetailQueryIsSetIdLimitOne ==
  \A i \in DOMAIN inv :
    LET x == inv[i]
    IN (/\ Started(x)
        /\ x.name = "get_drug_details"
        /\ HasObjectArgs(x)
        /\ Get(ArgsIn(x), "set_id").t = "string"
        /\ ~NamedViolation(x.name, ArgsIn(x)))
       => /\ x.gets = 1
          /\ UrlValues(x.url, "search")
               = {<<"set_id:">> \o Quoted(Get(ArgsIn(x), "set_id").s)}
          /\ UrlValues(x.url, "limit") = {<<"1">>}

C5_Witness ==
  \E i \in DOMAIN inv :
    LET x == inv[i]
    IN /\ x.pc = "fetch"
       /\ x.name = "get_drug_details"
       /\ HasObjectArgs(x)
       /\ Get(ArgsIn(x), "limit") = Num(5)
       /\ Get(ArgsIn(x), "skip") = Num(2)
       /\ UrlValues(x.url, "limit") = {<<"1">>}

-----------------------------------------------------------------------------
QueryKeys == {"search", "count", "skip", "limit"}

\* the text a defined query value is emitted as
Emitted(v) == IF v.t = "number" THEN NumberToString(v) ELSE v.s

(* C6: a key of the query appears in the request URL exactly when its      *)
(* value is defined, and then with that value; skip = 0 is emitted as       *)
(* skip=0.                                                                  *)
C6_UrlHasExactlyTheDefinedKeys ==
  \A i \in DOMAIN inv :
    LET x == inv[i]
    IN x.gets = 1
       => \A key \in QueryKeys :
            IF x.query[key].t = "undefined"
            THEN key \notin UrlKeys(x.url)
            ELSE UrlValues(x.url, key) = {Emitted(x.query[key])}

-----------------------------------------------------------------------------
\* the strings of a sequence, with one space between neighbours
RECURSIVE SpaceJoined(_)
SpaceJoined(a) ==
  IF a = <<>> THEN <<>>
  ELSE IF Len(a) = 1 THEN a[1].s
  ELSE SpaceJoined(SubSeq(a, 1, Len(a) - 1)) \o <<" ">> \o a[Len(a)].s

JoinedInput == IF tText.t = "array" THEN SpaceJoined(tText.a) ELSE tText.s

(* C7: for a text that is a string or a sequence of strings and a maximum  *)
(* max, truncateText returns the joined text unchanged when its length is   *)
(* at most max (also at exactly max), and otherwise its first max           *)
(* characters followed by the truncation marker (also at max + 1).          *)
C7_TruncateExactlyAtBoundary ==
  tOut # Undef
  => IF Len(JoinedInput) <= tMax
     THEN tOut = Str(JoinedInput)
     ELSE tOut = Str(SubSeq(JoinedInput, 1, tMax) \o TruncationMarker)

C7_Witness ==
  /\ tOut # Undef
  /\ tText.t = "array"
  /\ tMax = 300
  /\ Len(JoinedInput) = tMax + 1
  /\ Len(tOut.s) = tMax + Len(TruncationMarker)

-----------------------------------------------------------------------------
\* the upstream answered with a success status and a JSON body other than
\* null
AnsweredWithData(x) ==
  /\ x.pc = "done"
  /\ x.resp.kind = "response"
  /\ x.resp.ok
  /\ JSONparse(x.resp.body).ok
  /\ JSONparse(x.resp.body).v.t # "null"

DataOf(x) == JSONparse(x.resp.body).v

(* C8: a get_drug_details invocation whose upstream response has a success *)
(* status and no results (results absent or empty) returns a tool result,   *)
(* not an error, whose payload has an error field and whose set_id is the   *)
(* set_id requested.                                                        *)
C8_NoResultsIsNotFoundResult ==
  \A i \in DOMAIN inv :
    LET x == inv[i]
    IN (/\ x.name = "get_drug_details"
        /\ AnsweredWithData(x)
        /\ Get(DataOf(x), "results") \in {Undef, Arr(<<>>)})
       => /\ IsToolResult(x.outcome)
          /\ Get(Payload(x.outcome), "error").t = "string"
          /\ Get(Payload(x.outcome), "set_id") = Get(ArgsIn(x), "set_id")

C8_Witness ==
  \E i \in DOMAIN inv :
    LET x == inv[i]
    IN /\ x.name = "get_drug_details"
       /\ AnsweredWithData(x)
       /\ Get(DataOf(x), "results") = Arr(<<>>)
       /\ IsToolResult(x.outcome)
       /\ Get(Payload(x.outcome), "set_id") = Str(<<"a", "\"">>)

-----------------------------------------------------------------------------
MemberKeys(obj) == {obj.m[j].k : j \in 1..Len(obj.m)}

\* a found record and a non-empty allow-list
DetailWithAllowList(x) ==
  /\ x.name = "get_drug_details"
  /\ AnsweredWithData(x)
  /\ Get(DataOf(x), "results").t = "array"
  /\ Get(DataOf(x), "results").a # <<>>
  /\ Get(DataOf(x), "results").a[1].t = "object"
  /\ Get(ArgsIn(x), "fields").t = "array"
  /\ Get(ArgsIn(x), "fields").a # <<>>

(* C9: with a non-empty allow-list and a found record, drug_details holds  *)
(* a field exactly when it is in the allow-list and present on the record,  *)
(* and then with the record's raw value.                                    *)
C9_AllowListKeepsPresentFields ==
  \A i \in DOMAIN inv :
    LET x == inv[i]
    IN DetailWithAllowList(x)
       => /\ IsToolResult(x.outcome)
          /\ LET record  == Get(DataOf(x), "results").a[1]
                 fields  == Get(ArgsIn(x), "fields").a
                 allowed == {PropertyKey(fields[j].s) : j \in 1..Len(fields)}
                 details == Get(Payload(x.outcome), "drug_details")
             IN /\ MemberKeys(details) = allowed \cap MemberKeys(record)
                /\ \A f \in MemberKeys(details) : Get(details, f) = Get(record, f)

-----------------------------------------------------------------------------
Carries(error, piece) == \E j \in 1..Len(error.message) : error.message[j] = piece

UpstreamFailed(x) ==
  /\ x.pc = "done"
  /\ x.resp.kind = "response"
  /\ \/ ~x.resp.ok
     \/ ~JSONparse(x.resp.body).ok

(* C10 as stated: an upstream answer with a non-success status, or with a  *)
(* success status and a body that is not JSON, ends the invocation in an    *)
(* error and never in a tool result; for a non-success status the error     *)
(* carries the status code, the status text and the response body text.     *)
C10_UpstreamErrorCarriesStatusText ==
  \A i \in DOMAIN inv :
    LET x == inv[i]
    IN UpstreamFailed(x)
       => /\ IsMcpError(x.outcome)
          /\ ~x.resp.ok
               => /\ Carries(x.outcome, Chars(NumberToString(Num(x.resp.status))))
                  /\ Carries(x.outcome, Piece(x.resp.statusText))
                  /\ Carries(x.outcome, BodyText(x.resp.body))

(* C10 amended: as above, but for a non-success status the error carries   *)
(* the status code and the response body text (not the status text).        *)
C10_UpstreamErrorCarriesStatusAndBody ==
  \A i \in DOMAIN inv :
    LET x == inv[i]
    IN UpstreamFailed(x)
       => /\ IsMcpError(x.outcome)
          /\ ~x.resp.ok
               => /\ Carries(x.outcome, Chars(NumberToString(Num(x.resp.status))))
                  /\ Carries(x.outcome, BodyText(x.resp.body))

C10_Witness ==
  \E i \in DOMAIN inv :
    LET x == inv[i]
    IN /\ UpstreamFailed(x)
       /\ x.resp.status = 404
       /\ IsMcpError(x.outcome)
       /\ Carries(x.outcome, Chars(<<"4", "0", "4">>))
       /\ Carries(x.outcome, BodyText(ErrorBody))

-----------------------------------------------------------------------------
\* the upstream answered with a success status and a JSON object whose
\* results, when there, is a list of records that are objects
AnsweredWithRecords(x) ==
  /\ AnsweredWithData(x)
  /\ DataOf(x).t = "object"
  /\ LET results == Get(DataOf(x), "results")
     IN \/ results.t = "undefined"
        \/ /\ results.t = "array"
           /\ \A j \in 1..Len(results.a) : results.a[j].t = "object"

(* C11: whatever optional sub-field of a successfully parsed upstream       *)
(* response is missing or malformed (meta or results absent, a record       *)
(* without openfda, an empty name list, a label section that is absent, a   *)
(* string, a list of strings, or a number, boolean or object), shaping does *)
(* not fail: the invocation returns a tool result.                          *)
C11_ShapingNeverFails ==
  \A i \in DOMAIN inv :
    LET x == inv[i]
    IN AnsweredWithRecords(x) => IsToolResult(x.outcome)

-----------------------------------------------------------------------------
\* the caller left the argument out
Omits(x, key) == HasObjectArgs(x) /\ Get(ArgsIn(x), key).t = "undefined"

(* C12: when the caller omits limit, the limit sent upstream is the default *)
(* the tool's catalog entry declares for it; when the caller of             *)
(* search_drug_labels omits skip, the skip of the query is the declared     *)
(* default 0.                                                               *)
C12_OmittedLimitIsDeclaredDefault ==
  \A i \in DOMAIN inv :
    LET x == inv[i]
    IN (x.gets = 1 /\ x.name \in LimitTools)
       => /\ Omits(x, "limit")
               => UrlValues(x.url, "limit")
                    = {NumberToString(Num(DeclaredLimit(x.name).default))}
          /\ (Omits(x, "skip") /\ ToolSpec(x.name).skipDefault # {})
               => \A d \in ToolSpec(x.name).skipDefault : x.query.skip = Num(d)

-----------------------------------------------------------------------------
(* C13: once a SIGINT has been received, in whatever state and with         *)
(* whatever invocations in flight, the close of the server has been         *)
(* started; the process has exited only after a SIGINT and with the close   *)
(* completed, never with the transport still open.                          *)
C13_SigintClosesBeforeExit ==
  /\ srv.sigints > 0 => srv.transport \in {"closing", "closed"}
  /\ srv.exited => srv.sigints > 0 /\ srv.transport = "closed"

C13_Witness ==
  /\ srv.exited
  /\ srv.transport = "closed"
  /\ \E i \in DOMAIN inv : inv[i].pc = "fetch"

-----------------------------------------------------------------------------
\* the names of the catalog a ListTools request was answered with
ListedNames == {srv.listed.a[j].name : j \in 1..Len(srv.listed.a)}

RejectedAsUnknownTool(x) ==
  x.pc = "done" /\ IsMcpError(x.outcome) /\ x.outcome.code = "MethodNotFound"

\* an invocation that carries arguments
CarriesArguments(x) == Started(x) /\ HasArgs(x) /\ Truthy(ArgsIn(x))

DispatchAgreesWithCatalog ==
  srv.listed # Undef
  => \A i \in DOMAIN inv :
       CarriesArguments(inv[i])
       => (RejectedAsUnknownTool(inv[i]) <=> inv[i].name \notin ListedNames)

(* C14: the catalog a ListTools request returns is the same in every state, *)
(* whatever invocations succeeded or failed in between, and an invocation   *)
(* that carries arguments is rejected as an unknown tool exactly when its   *)
(* name is not a name of that catalog.                                      *)
C14_CatalogStaticAndDispatched ==
  /\ [](DispatchAgreesWithCatalog)
  /\ [][srv.listed # Undef => srv'.listed = srv.listed]_vars

C14_Witness ==
  /\ srv.listed # Undef
  /\ \E i \in DOMAIN inv :
       /\ CarriesArguments(inv[i])
       /\ inv[i].name = UnknownToolName
       /\ RejectedAsUnknownTool(inv[i])

-----------------------------------------------------------------------------
\* the arguments are there and the tool's schema accepts them
PassesValidation(x) ==
  /\ CarriesArguments(x)
  /\ x.name \in ToolNames
  /\ ~Throws(Validated(x.name, ArgsIn(x)))

\* the query the tool builds from the validated arguments
BuiltQuery(x) == Dispatch(x.name, ArgsIn(x)).params

(* C15: every invocation validates, builds its query, issues its GET,      *)
(* shapes and replies in that order.  It has issued exactly one GET when    *)
(* its arguments pass validation and none when the tool is unknown, the     *)
(* arguments are missing or validation rejects them; it never issues a      *)
(* second GET; while its GET is pending there is no result or error, and a  *)
(* result or error after a GET comes after the GET's response.              *)
C15_ValidateQueryGetShapeReply ==
  \A i \in DOMAIN inv :
    LET x == inv[i]
    IN /\ x.gets <= 1
       /\ Started(x) => (x.gets = 1 <=> PassesValidation(x))
       /\ x.gets = 1 => /\ x.query = BuiltQuery(x)
                        /\ x.url = makeRequestUrl(x.query)
       /\ x.gets = 0 /\ Started(x)
            => x.pc = "done" /\ Throws(x.outcome) /\ x.resp = NoResponse /\ x.url = <<>>
       /\ x.pc = "fetch" => x.gets = 1 /\ x.resp = NoResponse /\ x.outcome = Undef
       /\ x.pc = "done" /\ x.gets = 1
            => /\ x.resp # NoResponse
               /\ x.outcome = CallToolResume(x.name, x.locals, x.resp)

C15_Witness ==
  \E i \in DOMAIN inv :
    LET x == inv[i]
    IN /\ x.pc = "done"
       /\ x.gets = 1
       /\ x.resp = FetchRejected
       /\ IsMcpError(x.outcome)

-----------------------------------------------------------------------------
\* the invocation x stands where the same call, run alone and given the same
\* upstream response, stands: same request, same result or error
AsWhenAlone(x) ==
  LET alone == CallToolRequest(x.name, x.rawArgs)
  IN IF alone.t = "await"
     THEN /\ x.gets = 1
          /\ x.query = alone.params
          /\ x.url = makeRequestUrl(alone.params)
          /\ x.pc = "done" => x.outcome = CallToolResume(x.name, alone.locals, x.resp)
     ELSE x.pc = "done" /\ x.gets = 0 /\ x.url = <<>> /\ x.outcome = alone

(* C16: with several invocations in flight at once and their responses      *)
(* arriving in any order, the request and the result or error of each       *)
(* invocation are those of the same call run alone with the same upstream   *)
(* response: they depend on its own name, arguments and response only.      *)
C16_ConcurrentInvocationsIndependent ==
  \A i \in DOMAIN inv : Started(inv[i]) => AsWhenAlone(inv[i])

C16_Witness ==
  /\ inv[1].pc = "done"
  /\ inv[2].pc = "fetch"
  /\ inv[1].name = inv[2].name
  /\ inv[1].gets = 1
  /\ inv[1].locals # inv[2].locals
  /\ IsToolResult(inv[1].outcome)

====
